---- MODULE Spec2Model ----
(***************************************************************************)
(* The planning core of the sales-automation assistant: PlannerAgent's     *)
(* create_plan / _convert_to_plan / _generate_task_id / validate_plan /    *)
(* _has_circular_dependencies (src/src/planner/planner_agent.py) and the   *)
(* pydantic schemas they build on (src/src/planner/schemas.py,             *)
(* src/src/core/types.py), the rest of the request they belong to,         *)
(* WorkflowManager.process_user_query                                      *)
(* (src/src/orchestration/workflow_manager.py) with                        *)
(* MagenticCoordinator.execute_plan                                        *)
(* (src/src/orchestration/magentic_coordinator.py), and                    *)
(* Plan.get_ready_tasks; WorkflowManager's initialize and cleanup with     *)
(* MagenticCoordinator.initialize / cleanup; EmailCalendarTools'           *)
(* schedule_meeting and manage_meeting                                     *)
(* (src/src/agents/tools/email_calendar_tools.py).                         *)
(*                                                                         *)
(* The specifications share the variables: Spec is one planning request    *)
(* from the planner's response to the returned WorkflowResult, SpecPlanner *)
(* its planning half, SpecRevalidate the planning half with validate_plan  *)
(* called a second time, SpecConcurrent several planning invocations       *)
(* interleaved on one PlannerAgent, SpecId _generate_task_id called on one *)
(* title, SpecReady get_ready_tasks called on one Plan, SpecExecutor an    *)
(* executor completing the tasks get_ready_tasks returns, SpecLifecycle    *)
(* the calls on one WorkflowManager, SpecCalendar the calls on one         *)
(* EmailCalendarTools.                                                     *)
(*                                                                         *)
(* A Python str is modelled as a sequence of one-character strings, so     *)
(* that lower(), isalnum(), replace(), split(), join() and the `in`        *)
(* substring test are computed character by character as Python does.      *)
(***************************************************************************)
EXTENDS Integers, Sequences, FiniteSets, TLC

VARIABLES
    user_query,  \* the caller's query
    raw,         \* the planner's parsed JSON response (planner_data)
    plan,        \* the Plan object, NoPlan while none was returned
    before,      \* history: the Plan as it was when validate_plan was entered
    result,      \* the dict validate_plan returned, NoResult before that
    pc,          \* "start", "built", "create_raised", "validated", "validate_raised",
                 \* "revalidated", "rejected", "executed"; "idle" outside a request
    wf,          \* the WorkflowResult process_user_query returned, NoWorkflowResult before
    executions,  \* history: how often coordinator.execute_plan was invoked
    gen_title,   \* the title _generate_task_id is called with
    gen_ids,     \* the ids its calls returned, in call order
    ready_tasks, \* the positions of the tasks get_ready_tasks returned, or NotCalled
    again,       \* the dict a second validate_plan on the same Plan returned, with
                 \* the plan the first run left (history); NotAgain before that
    manager,     \* WorkflowManager.initialized and its coordinator's runtime and
                 \* orchestration
    outcome,     \* the last call on the WorkflowManager and whether it raised
    calendar_events, \* EmailCalendarTools.calendar_events
    reply,       \* the last calendar call and the status of the JSON it returned,
                 \* with (history) whether the requested interval overlapped an
                 \* event of the calendar and whether the call left the calendar
                 \* as it was
    calls        \* the locals of the create_plan / validate_plan invocations that
                 \* run interleaved on one PlannerAgent

vars == <<user_query, raw, plan, before, result, pc, wf, executions, gen_title, gen_ids, ready_tasks, again, manager, outcome, calendar_events, reply, calls>>

\* the variables of the planning request
request == <<user_query, raw, plan, before, result, pc, wf, executions>>

\* the variables of the id generator
generator == <<gen_title, gen_ids>>

\* the variables that only the other specifications use
extras == <<again, manager, outcome, calendar_events, reply, calls>>

----------------------------------------------------------------------------
(* Characters and Python string primitives                                 *)

UpperChars == <<"A", "B", "C", "D", "E", "F", "G", "H", "I", "J", "K", "L", "M", "N", "O", "P", "Q", "R", "S", "T", "U", "V", "W", "X", "Y", "Z">>

LowerChars == <<"a", "b", "c", "d", "e", "f", "g", "h", "i", "j", "k", "l", "m", "n", "o", "p", "q", "r", "s", "t", "u", "v", "w", "x", "y", "z">>

DigitChars == <<"0", "1", "2", "3", "4", "5", "6", "7", "8", "9">>

\* U+2102 DOUBLE-STRUCK CAPITAL C, one of the upper-case letters of Unicode
\* that str.lower() leaves as they are (they have no lower-case form)
DoubleStruckC == "U+2102"

Range(s) == {s[i] : i \in DOMAIN s}

\* str.lower() on one character
LowerChar(c) ==
    IF c \in Range(UpperChars)
    THEN LowerChars[CHOOSE i \in DOMAIN UpperChars : UpperChars[i] = c]
    ELSE c

\* str.lower()
Lower(s) == [i \in DOMAIN s |-> LowerChar(s[i])]

\* c.isalnum()
IsAlnum(c) ==
    c \in Range(UpperChars) \cup Range(LowerChars) \cup Range(DigitChars)
              \cup {DoubleStruckC}

\* Python `sub in s` for strings
Contains(sub, s) ==
    /\ Len(sub) <= Len(s)
    /\ \E i \in 0..(Len(s) - Len(sub)) : SubSeq(s, i + 1, i + Len(sub)) = sub

\* s.replace(old, new): leftmost non-overlapping occurrences, old non-empty
RECURSIVE Replace(_, _, _)
Replace(s, old, new) ==
    IF Len(s) < Len(old) THEN s
    ELSE IF SubSeq(s, 1, Len(old)) = old
         THEN new \o Replace(SubSeq(s, Len(old) + 1, Len(s)), old, new)
         ELSE <<s[1]>> \o Replace(Tail(s), old, new)

\* s.split('-'): the pieces between hyphens, empty pieces included
RECURSIVE SplitHyphen(_, _, _)
SplitHyphen(s, k, cur) ==
    IF k > Len(s) THEN <<cur>>
    ELSE IF s[k] = "-" THEN <<cur>> \o SplitHyphen(s, k + 1, <<>>)
         ELSE SplitHyphen(s, k + 1, Append(cur, s[k]))

\* FilterNonEmpty without the filter
FilterNonEmpty_KeepAll(parts) == parts

\* filter(None, parts): drop the empty pieces
RECURSIVE FilterNonEmpty(_)
FilterNonEmpty(parts) ==
    IF parts = <<>> THEN <<>>
    ELSE IF Head(parts) = <<>> THEN FilterNonEmpty(Tail(parts))
         ELSE <<Head(parts)>> \o FilterNonEmpty(Tail(parts))

\* '-'.join(parts)
RECURSIVE JoinHyphen(_)
JoinHyphen(parts) ==
    IF parts = <<>> THEN <<>>
    ELSE IF Len(parts) = 1 THEN Head(parts)
         ELSE Head(parts) \o <<"-">> \o JoinHyphen(Tail(parts))

\* '-'.join(filter(None, s.split('-')))
CollapseHyphens(s) == JoinHyphen(FilterNonEmpty(SplitHyphen(s, 1, <<>>)))

----------------------------------------------------------------------------
(* PlannerAgent._generate_task_id                                          *)

\* generate_task_id without title.lower()
generate_task_id_NoLower(title) ==
    CollapseHyphens([i \in DOMAIN title |->
                        IF IsAlnum(title[i]) THEN title[i] ELSE "-"])

generate_task_id(title) ==
    LET lowered == Lower(title)
        mapped  == [i \in DOMAIN lowered |->
                       IF IsAlnum(lowered[i]) THEN lowered[i] ELSE "-"]
    IN CollapseHyphens(mapped)

----------------------------------------------------------------------------
(* validate_plan's nested normalize_id and its matching rule               *)

S_corporations == <<"c", "o", "r", "p", "o", "r", "a", "t", "i", "o", "n", "s">>

S_corporation == <<"c", "o", "r", "p", "o", "r", "a", "t", "i", "o", "n">>

normalize_id(id_str) ==
    LET n0 == Lower(id_str)
        n1 == Replace(Replace(n0, <<"'", "s">>, <<"s">>), <<"'">>, <<>>)
        n2 == Replace(Replace(n1, <<"-", "s", "-">>, <<"-">>),
                      S_corporations, S_corporation)
        n3 == Replace(n2, <<"-", "-">>, <<"-">>)
    IN CollapseHyphens(n3)

\* the condition of the `if` at lines 299-302
FuzzyMatch(dep_id, existing_id) ==
    LET normalized_dep      == normalize_id(dep_id)
        normalized_existing == normalize_id(existing_id)
    IN \/ normalized_dep = normalized_existing
       \/ Contains(normalized_dep, normalized_existing)
       \/ Contains(normalized_existing, normalized_dep)
       \/ Contains(dep_id, existing_id)
       \/ Contains(existing_id, dep_id)

----------------------------------------------------------------------------
(* Schemas: TaskCreateRequest and PlannerResponse (pydantic validation)    *)

TitleMaxLength == 100

DefaultDuration == 30

DurationMin == 1

DurationMax == 480

TotalDurationMin == 1

TaskKeys == {"title", "description", "agent_type", "estimated_duration"}

ResponseKeys == {"tasks", "summary", "estimated_total_duration"}

\* TaskCreateRequest(**task): the required fields are present and the
\* constrained ones are in range
TaskCreateRequestValid(t) ==
    /\ "title" \in t.keys
    /\ Len(t.title) <= TitleMaxLength
    /\ "description" \in t.keys
    /\ "agent_type" \in t.keys
    /\ "estimated_duration" \in t.keys =>
          /\ t.estimated_duration >= DurationMin
          /\ t.estimated_duration <= DurationMax

\* the value of the estimated_duration field after validation
RequestDuration(t) ==
    IF "estimated_duration" \in t.keys THEN t.estimated_duration
    ELSE DefaultDuration

\* the value of the required_tools field after validation (default: no tools)
RequestTools(t) ==
    IF "required_tools" \in t.keys THEN t.required_tools ELSE <<>>

\* PlannerResponse(**planner_data)
PlannerResponseValid(r) ==
    /\ ResponseKeys \subseteq r.keys
    /\ r.estimated_total_duration >= TotalDurationMin
    /\ \A i \in DOMAIN r.tasks : TaskCreateRequestValid(r.tasks[i])

----------------------------------------------------------------------------
(* core types: Task, Plan                                                  *)

\* the id a new Plan gets (a fresh uuid4 string)
NewPlanId == "uuid4"

NoPlan ==
    [present |-> FALSE, id |-> "", user_query |-> <<>>, tasks |-> <<>>,
     estimated_total_duration |-> 0]

NoResult ==
    [present |-> FALSE, raised |-> FALSE, valid |-> FALSE,
     errors |-> <<>>, warnings |-> <<>>]

NoWorkflowResult ==
    [present |-> FALSE, plan_id |-> "", user_query |-> <<>>,
     agent_responses |-> <<>>, success |-> FALSE, errors |-> <<>>]

\* validate_plan was not called a second time
NotAgain == [present |-> FALSE, first |-> <<>>, valid |-> FALSE,
             errors |-> <<>>, warnings |-> <<>>]

\* WorkflowManager() with its MagenticCoordinator(): not initialized, no
\* runtime ("none", later "started" or "stopped"), no orchestration
NewManager == [initialized |-> FALSE, runtime |-> "none", orchestration |-> FALSE]

\* no call was made on the WorkflowManager
NoCall == [call |-> "none", raised |-> FALSE]

\* no calendar call was made
NoReply == [call |-> "none", status |-> "none", overlapped |-> FALSE,
            unchanged |-> TRUE]

\* get_ready_tasks was not called yet
NotCalled == <<0>>

----------------------------------------------------------------------------
(* Plan.get_ready_tasks                                                    *)

\* completed_task_ids = {task.id for task in self.tasks if completed}
CompletedTaskIds(tasks) ==
    {tasks[k].id : k \in {j \in DOMAIN tasks : tasks[j].status = "completed"}}

\* get_ready_tasks taking a dependency for done unless it is the id of a
\* task that is not completed
get_ready_tasks_UnknownDone(tasks) ==
    SelectSeq([k \in DOMAIN tasks |-> k],
              LAMBDA k :
                 /\ tasks[k].status = "pending"
                 /\ \A d \in DOMAIN tasks[k].dependencies :
                       \A j \in DOMAIN tasks :
                           tasks[j].id = tasks[k].dependencies[d]
                              => tasks[j].status = "completed")

\* get_ready_tasks with any() in the place of all()
get_ready_tasks_AnyDep(tasks) ==
    SelectSeq([k \in DOMAIN tasks |-> k],
              LAMBDA k :
                 /\ tasks[k].status = "pending"
                 /\ \E d \in DOMAIN tasks[k].dependencies :
                       tasks[k].dependencies[d] \in CompletedTaskIds(tasks))

\* the list get_ready_tasks returns, as the positions of its tasks in
\* self.tasks
get_ready_tasks(tasks) ==
    SelectSeq([k \in DOMAIN tasks |-> k],
              LAMBDA k :
                 /\ tasks[k].status = "pending"
                 /\ \A d \in DOMAIN tasks[k].dependencies :
                       tasks[k].dependencies[d] \in CompletedTaskIds(tasks))

----------------------------------------------------------------------------
(* PlannerAgent._convert_to_plan                                           *)

\* first pass: the dict task_title_to_id as its items in insertion order
\* (a repeated title keeps its first position and takes the last value)
RECURSIVE TitleItems(_, _, _)
TitleItems(reqs, k, items) ==
    IF k > Len(reqs) THEN items
    ELSE LET title == reqs[k].title
             tid   == generate_task_id(title)
         IN IF \E j \in DOMAIN items : items[j].title = title
            THEN TitleItems(reqs, k + 1,
                   [j \in DOMAIN items |->
                      IF items[j].title = title
                      THEN [title |-> title, tid |-> tid] ELSE items[j]])
            ELSE TitleItems(reqs, k + 1,
                   Append(items, [title |-> title, tid |-> tid]))

\* ResolveDep appending the matched title instead of its id
ResolveDep_Title(dep, items) ==
    LET hits == {j \in DOMAIN items :
                    \/ dep = generate_task_id(items[j].title)
                    \/ dep = items[j].tid}
    IN IF hits = {} THEN dep
       ELSE items[CHOOSE j \in hits : \A h \in hits : j <= h].title

\* ResolveDep turning a reference that matches no task into an id
ResolveDep_Slug(dep, items) ==
    LET hits == {j \in DOMAIN items :
                    \/ dep = generate_task_id(items[j].title)
                    \/ dep = items[j].tid}
    IN IF hits = {} THEN generate_task_id(dep)
       ELSE items[CHOOSE j \in hits : \A h \in hits : j <= h].tid

\* the inner loop over task_title_to_id.items() for one dependency,
\* followed by `if found_dep: ... else: ...` (an empty string is falsy)
ResolveDep(dep, items) ==
    LET hits == {j \in DOMAIN items :
                    \/ dep = generate_task_id(items[j].title)
                    \/ dep = items[j].tid}
    IN IF hits = {} THEN dep
       ELSE LET first == CHOOSE j \in hits : \A h \in hits : j <= h
                found_dep == items[first].tid
            IN IF found_dep # <<>> THEN found_dep ELSE dep

\* convert_to_plan keeping only the first task of every id
convert_to_plan_FirstOfId(query, resp) ==
    LET items  == TitleItems(resp.tasks, 1, <<>>)
        firsts == SelectSeq([k \in DOMAIN resp.tasks |-> k],
                            LAMBDA k : \A j \in 1..(k - 1) :
                                generate_task_id(resp.tasks[j].title)
                                    # generate_task_id(resp.tasks[k].title))
        tasks  == [n \in DOMAIN firsts |->
                    [id |-> generate_task_id(resp.tasks[firsts[n]].title),
                     title |-> resp.tasks[firsts[n]].title,
                     status |-> "pending",
                     required_tools |-> RequestTools(resp.tasks[firsts[n]]),
                     estimated_duration |-> RequestDuration(resp.tasks[firsts[n]]),
                     dependencies |->
                        [d \in DOMAIN resp.tasks[firsts[n]].dependencies |->
                            ResolveDep(resp.tasks[firsts[n]].dependencies[d], items)]]]
    IN [present |-> TRUE, id |-> NewPlanId, user_query |-> query, tasks |-> tasks,
        estimated_total_duration |-> resp.estimated_total_duration]

convert_to_plan(query, resp) ==
    LET items == TitleItems(resp.tasks, 1, <<>>)
        tasks == [k \in DOMAIN resp.tasks |->
                    [id |-> generate_task_id(resp.tasks[k].title),
                     title |-> resp.tasks[k].title,
                     status |-> "pending",
                     required_tools |-> RequestTools(resp.tasks[k]),
                     estimated_duration |-> RequestDuration(resp.tasks[k]),
                     dependencies |->
                        [d \in DOMAIN resp.tasks[k].dependencies |->
                            ResolveDep(resp.tasks[k].dependencies[d], items)]]]
    IN [present |-> TRUE, id |-> NewPlanId, user_query |-> query, tasks |-> tasks,
        estimated_total_duration |-> resp.estimated_total_duration]

\* create_plan that drops the raw tasks failing validation and builds the rest
create_plan_Partial(query, resp) ==
    IF ResponseKeys \subseteq resp.keys /\ resp.estimated_total_duration >= TotalDurationMin
    THEN [raised |-> FALSE,
          plan |-> convert_to_plan(query,
                     [resp EXCEPT !.tasks = SelectSeq(@, TaskCreateRequestValid)])]
    ELSE [raised |-> TRUE, plan |-> NoPlan]

\* create_plan from the parsed JSON on: either the Plan or a ValueError
create_plan(query, resp) ==
    IF PlannerResponseValid(resp)
    THEN [raised |-> FALSE, plan |-> convert_to_plan(query, resp)]
    ELSE [raised |-> TRUE, plan |-> NoPlan]

----------------------------------------------------------------------------
(* PlannerAgent._has_circular_dependencies                                 *)

\* graph = {task.id: task.dependencies for task in tasks}: the keys in
\* insertion order; a repeated id keeps the dependencies of its last task
GraphKeys(tasks) ==
    LET firsts == {k \in DOMAIN tasks :
                      \A j \in DOMAIN tasks : tasks[j].id = tasks[k].id => k <= j}
        Nth[n \in 0..Len(tasks)] ==
            IF n = 0 THEN 0
            ELSE IF \E k \in firsts : k > Nth[n - 1]
                 THEN CHOOSE k \in firsts :
                         /\ k > Nth[n - 1]
                         /\ \A m \in firsts : m > Nth[n - 1] => k <= m
                 ELSE 0
    IN [n \in 1..Cardinality(firsts) |-> tasks[Nth[n]].id]

GraphValue(tasks, id) ==
    LET last == CHOOSE k \in DOMAIN tasks :
                   /\ tasks[k].id = id
                   /\ \A j \in DOMAIN tasks : tasks[j].id = id => j <= k
    IN tasks[last].dependencies

\* graph[node] instead of graph.get(node, []): KeyError for a node that is
\* no key of the graph
GraphGet_Subscript(tasks, node) ==
    IF \E k \in DOMAIN tasks : tasks[k].id = node
    THEN [raised |-> FALSE, value |-> GraphValue(tasks, node)]
    ELSE [raised |-> TRUE, value |-> <<>>]

\* graph.get(node, [])
GraphGet(tasks, node) ==
    IF \E k \in DOMAIN tasks : tasks[k].id = node
    THEN [raised |-> FALSE, value |-> GraphValue(tasks, node)]
    ELSE [raised |-> FALSE, value |-> <<>>]

\* has_cycle(node): visited.add(node); rec_stack.add(node)
Enter(st, node) ==
    [st EXCEPT !.visited = @ \cup {node}, !.rec_stack = @ \cup {node}]

\* Leave without rec_stack.remove(node): the node stays on the stack
Leave_KeepStack(r, node) ==
    IF r.raised \/ r.ret THEN r
    ELSE [r EXCEPT !.ret = FALSE]

\* has_cycle(node): after the neighbours, `rec_stack.remove(node); return
\* False`, unless a neighbour returned True (which returns at once)
Leave(r, node) ==
    IF r.raised \/ r.ret THEN r
    ELSE [r EXCEPT !.rec_stack = @ \ {node}, !.ret = FALSE]

\* the nested has_cycle(node), with the closure's visited / rec_stack sets
\* passed in and handed back; VisitNeighbors is its `for neighbor in ...`
RECURSIVE has_cycle(_, _, _)
RECURSIVE VisitNeighbors(_, _, _, _)
RECURSIVE NextNeighbor(_, _, _, _)
has_cycle(tasks, node, st) ==
    IF node \in st.rec_stack THEN [st EXCEPT !.ret = TRUE]
    ELSE IF node \in st.visited THEN [st EXCEPT !.ret = FALSE]
    ELSE Leave(VisitNeighbors(tasks, GraphGet(tasks, node), 1, Enter(st, node)), node)

VisitNeighbors(tasks, got, k, st) ==
    IF got.raised THEN [st EXCEPT !.raised = TRUE, !.ret = FALSE]
    ELSE IF k > Len(got.value) THEN [st EXCEPT !.ret = FALSE]
    ELSE NextNeighbor(tasks, got, k, has_cycle(tasks, got.value[k], st))

NextNeighbor(tasks, got, k, r) ==
    IF r.raised \/ r.ret THEN r
    ELSE VisitNeighbors(tasks, got, k + 1, r)

\* `for task_id in graph: if task_id not in visited: if has_cycle(task_id):
\* return True`, then `return False`
RECURSIVE VisitRoots(_, _, _, _)
RECURSIVE NextRoot(_, _, _, _)
VisitRoots(tasks, keys, k, st) ==
    IF k > Len(keys) THEN [st EXCEPT !.ret = FALSE]
    ELSE IF keys[k] \in st.visited THEN VisitRoots(tasks, keys, k + 1, st)
    ELSE NextRoot(tasks, keys, k, has_cycle(tasks, keys[k], st))

NextRoot(tasks, keys, k, r) ==
    IF r.raised \/ r.ret THEN r
    ELSE VisitRoots(tasks, keys, k + 1, r)

has_circular_dependencies(tasks) ==
    VisitRoots(tasks, GraphKeys(tasks), 1,
               [visited |-> {}, rec_stack |-> {}, ret |-> FALSE, raised |-> FALSE])

----------------------------------------------------------------------------
(* PlannerAgent.validate_plan                                              *)

DurationCeiling == 480

CircularError == [kind |-> "circular", title |-> <<>>, dep |-> <<>>]

MissingError(title, dep_id) == [kind |-> "missing", title |-> title, dep |-> dep_id]

DurationWarning == "duration"

TaskIds(tasks) == {tasks[k].id : k \in DOMAIN tasks}

\* the orders in which `for existing_id in task_ids` can walk the set
IterationOrders(ids) ==
    {o \in [1..Cardinality(ids) -> ids] :
        \A i, j \in DOMAIN o : o[i] = o[j] => i = j}

\* the least element of a non-empty set of positions
Least(S) == CHOOSE k \in S : \A h \in S : k <= h

\* FirstMatch with only the first rule (equal normalized forms)
FirstMatch_EqualOnly(dep_id, order) ==
    IF \E k \in DOMAIN order : normalize_id(dep_id) = normalize_id(order[k])
    THEN Least({k \in DOMAIN order : normalize_id(dep_id) = normalize_id(order[k])})
    ELSE 0

\* FirstMatch giving up after the first id of the walk
FirstMatch_FirstOnly(dep_id, order) ==
    IF order # <<>> /\ FuzzyMatch(dep_id, order[1]) THEN 1 ELSE 0

\* the inner `for existing_id in task_ids` loop: the position of the first
\* id of the walk that matches, 0 when none does
FirstMatch(dep_id, order) ==
    IF \E k \in DOMAIN order : FuzzyMatch(dep_id, order[k])
    THEN Least({k \in DOMAIN order : FuzzyMatch(dep_id, order[k])})
    ELSE 0

\* task.dependencies = [existing_id if d == dep_id else d for d in ...]
RewriteDeps(deps, dep_id, existing_id) ==
    [d \in DOMAIN deps |-> IF deps[d] = dep_id THEN existing_id ELSE deps[d]]

\* RepairOrReport with `validation_result["valid"] = False` left out
RepairOrReport_ValidKept(w, dep_id, order, m) ==
    IF m # 0
    THEN [w EXCEPT !.deps = RewriteDeps(@, dep_id, order[m])]
    ELSE [w EXCEPT !.errors = Append(@, MissingError(w.title, dep_id))]

\* one dependency that is not a task id: rewrite it to the first match
\* (position m of the walk), or record the error when there is none (m = 0)
RepairOrReport(w, dep_id, order, m) ==
    IF m # 0
    THEN [w EXCEPT !.deps = RewriteDeps(@, dep_id, order[m])]
    ELSE [w EXCEPT !.valid = FALSE,
                   !.errors = Append(@, MissingError(w.title, dep_id))]

\* the body of `for dep_id in task.dependencies`
CheckDep(w, dep_id, ids, order) ==
    IF dep_id \in ids THEN w
    ELSE RepairOrReport(w, dep_id, order, FirstMatch(dep_id, order))

\* `for dep_id in task.dependencies`: the walk is over the list the loop
\* started with (iter), the rewrites go to the task's current list (w.deps)
RECURSIVE CheckDeps(_, _, _, _, _)
CheckDeps(iter, j, ids, order, w) ==
    IF j > Len(iter) THEN w
    ELSE CheckDeps(iter, j + 1, ids, order, CheckDep(w, iter[j], ids, order))

\* StoreDeps putting a new Task with the repaired list in the task's place,
\* required_tools left at its default
StoreDeps_NewTask(acc, k, w) ==
    [tasks |-> [acc.tasks EXCEPT ![k] = [@ EXCEPT !.dependencies = w.deps,
                                                  !.required_tools = <<>>]],
     valid |-> w.valid, errors |-> w.errors]

\* the task's list is replaced by the one the loop over it left
StoreDeps(acc, k, w) ==
    [tasks |-> [acc.tasks EXCEPT ![k].dependencies = w.deps],
     valid |-> w.valid, errors |-> w.errors]

\* `for task in plan.tasks`
RECURSIVE CheckTasks(_, _, _, _)
CheckTasks(k, ids, order, acc) ==
    IF k > Len(acc.tasks) THEN acc
    ELSE CheckTasks(k + 1, ids, order,
           StoreDeps(acc, k,
             CheckDeps(acc.tasks[k].dependencies, 1, ids, order,
                       [title |-> acc.tasks[k].title,
                        deps |-> acc.tasks[k].dependencies,
                        valid |-> acc.valid, errors |-> acc.errors])))

\* sum(task.estimated_duration or 0 for task in plan.tasks); a built Task
\* always carries an integer duration, for which `d or 0` is d
RECURSIVE TotalDuration(_, _)
TotalDuration(tasks, k) ==
    IF k > Len(tasks) THEN 0
    ELSE tasks[k].estimated_duration + TotalDuration(tasks, k + 1)

\* lines 258-267: the result dict after the circular-dependency check
AfterCycleCheck(tasks, cyc) ==
    IF cyc.ret
    THEN [tasks |-> tasks, valid |-> FALSE, errors |-> <<CircularError>>]
    ELSE [tasks |-> tasks, valid |-> TRUE, errors |-> <<>>]

\* AfterDependencyCheck with the duration finding reported as an error
AfterDependencyCheck_DurationError(chk) ==
    IF TotalDuration(chk.tasks, 1) > DurationCeiling
    THEN [raised |-> FALSE, tasks |-> chk.tasks, valid |-> FALSE,
          errors |-> Append(chk.errors, [kind |-> "duration", title |-> <<>>, dep |-> <<>>]),
          warnings |-> <<>>]
    ELSE [raised |-> FALSE, tasks |-> chk.tasks, valid |-> chk.valid,
          errors |-> chk.errors, warnings |-> <<>>]

\* AfterDependencyCheck with the warning also clearing valid
AfterDependencyCheck_WarningInvalidates(chk) ==
    IF TotalDuration(chk.tasks, 1) > DurationCeiling
    THEN [raised |-> FALSE, tasks |-> chk.tasks, valid |-> FALSE,
          errors |-> chk.errors, warnings |-> <<DurationWarning>>]
    ELSE [raised |-> FALSE, tasks |-> chk.tasks, valid |-> chk.valid,
          errors |-> chk.errors, warnings |-> <<>>]

\* AfterDependencyCheck comparing with >= instead of >
AfterDependencyCheck_AtLeast(chk) ==
    [raised |-> FALSE, tasks |-> chk.tasks, valid |-> chk.valid,
     errors |-> chk.errors,
     warnings |-> IF TotalDuration(chk.tasks, 1) >= DurationCeiling
                  THEN <<DurationWarning>> ELSE <<>>]

\* lines 313-318: the duration warning and the returned dict
AfterDependencyCheck(chk) ==
    [raised |-> FALSE, tasks |-> chk.tasks, valid |-> chk.valid,
     errors |-> chk.errors,
     warnings |-> IF TotalDuration(chk.tasks, 1) > DurationCeiling
                  THEN <<DurationWarning>> ELSE <<>>]

ValidateAfter(tasks, order, cyc) ==
    IF cyc.raised
    THEN [raised |-> TRUE, tasks |-> tasks, valid |-> FALSE,
          errors |-> <<>>, warnings |-> <<>>]
    ELSE AfterDependencyCheck(
             CheckTasks(1, TaskIds(tasks), order, AfterCycleCheck(tasks, cyc)))

\* validate_plan(plan) when the set task_ids is walked in `order`; the
\* outcome holds the returned dict and the plan's tasks as left behind
validate_plan(tasks, order) ==
    ValidateAfter(tasks, order, has_circular_dependencies(tasks))

----------------------------------------------------------------------------
(* MagenticCoordinator.execute_plan and the WorkflowResults                *)

\* the entries of WorkflowResult.errors that are no validation errors
WorkflowError == [kind |-> "workflow", title |-> <<>>, dep |-> <<>>]

ExecutionError == [kind |-> "execution", title |-> <<>>, dep |-> <<>>]

\* the task_id an AgentResponse is stored with by the callback
MagenticTask == <<"magentic_task">>

\* process_user_query's `except Exception`: the WorkflowResult it returns
WorkflowFailed(query) ==
    [present |-> TRUE, plan_id |-> "unknown", user_query |-> query,
     agent_responses |-> <<>>, success |-> FALSE, errors |-> <<WorkflowError>>]

\* process_user_query's return for a plan that did not validate
WorkflowRejected(p, query, validation) ==
    [present |-> TRUE, plan_id |-> p.id, user_query |-> query,
     agent_responses |-> <<>>, success |-> FALSE, errors |-> validation.errors]

\* execute_plan's first return: every task completed, the stored responses
\* given the ids of the tasks at their positions
ExecutionCompleted(p, o) ==
    [raised |-> FALSE,
     tasks |-> [k \in DOMAIN p.tasks |-> [p.tasks[k] EXCEPT !.status = "completed"]],
     wf |-> [present |-> TRUE, plan_id |-> p.id, user_query |-> p.user_query,
             agent_responses |->
                [i \in 1..o.responses |->
                    [agent_name |-> "agent",
                     task_id |-> IF i <= Len(p.tasks) THEN p.tasks[i].id
                                 ELSE MagenticTask]],
             success |-> TRUE, errors |-> <<>>]]

\* ExecutionFailed without the loop that marks the pending tasks failed
ExecutionFailed_KeepsPending(p, o) ==
    [raised |-> FALSE,
     tasks |-> p.tasks,
     wf |-> [present |-> TRUE, plan_id |-> p.id, user_query |-> p.user_query,
             agent_responses |->
                [i \in 1..o.responses |->
                    [agent_name |-> "agent", task_id |-> MagenticTask]],
             success |-> FALSE, errors |-> <<ExecutionError>>]]

\* execute_plan's `except Exception`: pending tasks failed
ExecutionFailed(p, o) ==
    [raised |-> FALSE,
     tasks |-> [k \in DOMAIN p.tasks |->
                  IF p.tasks[k].status = "pending"
                  THEN [p.tasks[k] EXCEPT !.status = "failed"] ELSE p.tasks[k]],
     wf |-> [present |-> TRUE, plan_id |-> p.id, user_query |-> p.user_query,
             agent_responses |->
                [i \in 1..o.responses |->
                    [agent_name |-> "agent", task_id |-> MagenticTask]],
             success |-> FALSE, errors |-> <<ExecutionError>>]]

\* execute_plan(plan) when the coordinator and the orchestration behave as
\* o says: RuntimeError without an orchestration, else one of the two returns
execute_plan(p, o) ==
    IF ~o.initialized
    THEN [raised |-> TRUE, tasks |-> p.tasks, wf |-> NoWorkflowResult]
    ELSE IF o.raised THEN ExecutionFailed(p, o)
         ELSE ExecutionCompleted(p, o)

----------------------------------------------------------------------------
(* The planner responses the model is run on                               *)

MaxTasks == 3

MaxDeps == 2

Q_followup == <<"q">>

QueryPool == {Q_followup}

TitleOrder == << <<"a">>, <<"b">>, <<"c">> >>

TitlePool == Range(TitleOrder)

\* the titles of n tasks: task k takes one of the first k titles of the
\* pool, so every pattern of equal and distinct titles occurs once
TitleChoices(n) ==
    {t \in [1..n -> TitlePool] :
        \A k \in 1..n : \E j \in DOMAIN TitleOrder : j <= k /\ t[k] = TitleOrder[j]}

\* ids of the pool's titles, a reference that only the fuzzy rules match
\* (to a and to b), and one that nothing matches
D_Ab == <<"A", "b">>

D_z == <<"z">>

DepPool == {<<"a">>, <<"b">>, <<"c">>, D_Ab, D_z}

Tools_crm == <<"crm_api">>

WellFormedTask(title, deps) ==
    [keys |-> {"title", "description", "agent_type", "required_tools"},
     title |-> title, required_tools |-> Tools_crm,
     estimated_duration |-> 0, dependencies |-> deps]

Response(tasks, total) ==
    [keys |-> ResponseKeys, tasks |-> tasks, estimated_total_duration |-> total]

\* the dependencies of task i among the declared (task, reference) pairs
RECURSIVE DepsOf(_, _, _)
DepsOf(edges, k, i) ==
    IF k > Len(edges) THEN <<>>
    ELSE IF edges[k][1] = i THEN <<edges[k][2]>> \o DepsOf(edges, k + 1, i)
         ELSE DepsOf(edges, k + 1, i)

\* a response of n well-formed tasks with the declared (task, reference)
\* pairs as their dependencies
DependencyResponse(n, titles, edges) ==
    Response([i \in 1..n |-> WellFormedTask(titles[i], DepsOf(edges, 1, i))],
             n * DefaultDuration + 1)

\* one raw task without dependencies: well-formed with a duration, or with
\* one defect (a required field missing, a duration out of range)
FieldTasks ==
    { [keys |-> TaskKeys, title |-> <<"a">>, estimated_duration |-> d,
       dependencies |-> <<>>] : d \in {1, 240, 480} }
    \cup { [keys |-> TaskKeys, title |-> <<"b">>, estimated_duration |-> 240,
            dependencies |-> <<>>] }
    \cup { [keys |-> TaskKeys \ {k}, title |-> <<"a">>, estimated_duration |-> 0,
            dependencies |-> <<>>] : k \in TaskKeys }
    \cup { [keys |-> TaskKeys, title |-> <<"a">>, estimated_duration |-> d,
            dependencies |-> <<>>] : d \in {0, 481} }

\* the response's own fields: complete, total out of range, summary missing
ResponseFields ==
    { [keys |-> ResponseKeys, total |-> 60],
      [keys |-> ResponseKeys, total |-> 0],
      [keys |-> ResponseKeys \ {"summary"}, total |-> 60] }

FieldResponse(ts, f) ==
    [keys |-> f.keys, tasks |-> ts, estimated_total_duration |-> f.total]

T_retrieve == <<"R", "e", "t", "r", "i", "e", "v", "e", " ", "c", "u", "s", "t", "o", "m", "e", "r", " ", "d", "a", "t", "a">>

T_send == <<"S", "e", "n", "d", " ", "f", "o", "l", "l", "o", "w", "-", "u", "p", " ", "e", "m", "a", "i", "l">>

T_acme == <<"A", "c", "m", "e", " ", "C", "o", "r", "p", "o", "r", "a", "t", "i", "o", "n", "s", " ", "o", "n", "b", "o", "a", "r", "d", "i", "n", "g">>

T_welcome == <<"S", "e", "n", "d", " ", "w", "e", "l", "c", "o", "m", "e", " ", "e", "m", "a", "i", "l">>

ID_retrieve == <<"r", "e", "t", "r", "i", "e", "v", "e", "-", "c", "u", "s", "t", "o", "m", "e", "r", "-", "d", "a", "t", "a">>

ID_send == <<"s", "e", "n", "d", "-", "f", "o", "l", "l", "o", "w", "-", "u", "p", "-", "e", "m", "a", "i", "l">>

ID_acme == <<"a", "c", "m", "e", "-", "c", "o", "r", "p", "o", "r", "a", "t", "i", "o", "n", "s", "-", "o", "n", "b", "o", "a", "r", "d", "i", "n", "g">>

D_retrieve_title == <<"R", "e", "t", "r", "i", "e", "v", "e", " ", "C", "u", "s", "t", "o", "m", "e", "r", " ", "D", "a", "t", "a">>

D_acme_spaced == <<"A", "c", "m", "e", " ", "C", "o", "r", "p", "o", "r", "a", "t", "i", "o", "n", "'", "s", " ", "o", "n", "b", "o", "a", "r", "d", "i", "n", "g">>

D_acme_kebab == <<"a", "c", "m", "e", "-", "c", "o", "r", "p", "o", "r", "a", "t", "i", "o", "n", "'", "s", "-", "o", "n", "b", "o", "a", "r", "d", "i", "n", "g">>

\* the two-task scenarios: the second task declares one dependency on the first
Scenario(title1, title2, dep) ==
    Response(<<WellFormedTask(title1, <<>>), WellFormedTask(title2, <<dep>>)>>, 60)

\* three tasks a -> b -> c -> a
CycleOfThree ==
    Response(<<WellFormedTask(<<"a">>, << <<"b">> >>),
               WellFormedTask(<<"b">>, << <<"c">> >>),
               WellFormedTask(<<"c">>, << <<"a">> >>)>>, 90)

\* two tasks without dependencies whose durations add up to 500 minutes
FiveHundredMinutes ==
    Response(<<[keys |-> TaskKeys, title |-> <<"a">>, estimated_duration |-> 250,
                dependencies |-> <<>>],
               [keys |-> TaskKeys, title |-> <<"b">>, estimated_duration |-> 250,
                dependencies |-> <<>>]>>, 500)

ScenarioResponses ==
    { CycleOfThree,
      FiveHundredMinutes,
      Scenario(T_retrieve, T_send, ID_retrieve),
      Scenario(T_retrieve, T_send, D_retrieve_title),
      Scenario(T_acme, T_welcome, D_acme_spaced),
      Scenario(T_acme, T_welcome, D_acme_kebab) }

\* short responses for the specifications that run whole requests side by
\* side: a task whose reference names no task of its plan, two tasks in a
\* chain, a reference that is repaired, a cycle, a long plan, a response
\* PlannerResponse(**planner_data) refuses
ShortResponses ==
    { Response(<<WellFormedTask(<<"a">>, << <<"b">> >>)>>, 30),
      Response(<<WellFormedTask(<<"a">>, <<>>),
                 WellFormedTask(<<"b">>, << <<"a">> >>)>>, 60),
      Response(<<WellFormedTask(<<"b">>, <<D_Ab>>)>>, 30),
      CycleOfThree,
      FiveHundredMinutes,
      FieldResponse(<<>>, [keys |-> ResponseKeys, total |-> 0]) }

----------------------------------------------------------------------------
(* The state machine: one planning request                                 *)

\* the raw planner response of the request: up to MaxTasks tasks with up to
\* MaxDeps dependency references among them, or up to MaxTasks tasks without
\* dependencies but with any fields, or one of the scenarios
RawResponse ==
    \/ \E n \in 0..MaxTasks, m \in 0..MaxDeps :
          \E titles \in TitleChoices(n), edges \in [1..m -> (1..n) \X DepPool] :
             raw = DependencyResponse(n, titles, edges)
    \/ \E n \in 0..MaxTasks :
          \E ts \in [1..n -> FieldTasks], f \in ResponseFields :
             raw = FieldResponse(ts, f)
    \/ raw \in ScenarioResponses

\* how many responses the callback stored during one invocation
ResponseCounts == {0, 1}

\* what the coordinator and the orchestration do in one execute_plan call:
\* initialize left no orchestration, or the invocation returned or raised
\* after some agent responses
ExecutionOutcomes ==
    {[initialized |-> FALSE, raised |-> FALSE, responses |-> 0]}
    \cup {[initialized |-> TRUE, raised |-> b, responses |-> n] :
             b \in BOOLEAN, n \in ResponseCounts}

\* nothing of the other specifications is in use
ExtrasIdle ==
    /\ again = NotAgain
    /\ manager = NewManager
    /\ outcome = NoCall
    /\ calendar_events = <<>>
    /\ reply = NoReply
    /\ calls = <<>>

\* nothing of the id generator or of get_ready_tasks is in use
AsideIdle ==
    /\ gen_title = <<>>
    /\ gen_ids = <<>>
    /\ ready_tasks = NotCalled
    /\ ExtrasIdle

Init ==
    /\ user_query \in QueryPool
    /\ RawResponse
    /\ plan = NoPlan
    /\ before = NoPlan
    /\ result = NoResult
    /\ pc = "start"
    /\ wf = NoWorkflowResult
    /\ executions = 0
    /\ AsideIdle

\* the effect of one create_plan call with outcome r; its ValueError is
\* caught by process_user_query, which returns the failure result
Created(r) ==
    /\ plan' = r.plan
    /\ pc' = IF r.raised THEN "create_raised" ELSE "built"
    /\ wf' = IF r.raised THEN WorkflowFailed(user_query) ELSE wf

\* WorkflowManager.process_user_query step 1: planner.create_plan
CreatePlan ==
    /\ pc = "start"
    /\ Created(create_plan(user_query, raw))
    /\ UNCHANGED <<user_query, raw, before, result, executions, gen_title, gen_ids, ready_tasks, extras>>

\* the effect of one validate_plan call with outcome v: the plan keeps the
\* repaired dependency lists, the caller holds the returned dict
Validated(v) ==
    /\ before' = plan
    /\ plan' = [plan EXCEPT !.tasks = v.tasks]
    /\ result' = [present |-> ~v.raised, raised |-> v.raised, valid |-> v.valid,
                  errors |-> v.errors, warnings |-> v.warnings]
    /\ pc' = IF v.raised THEN "validate_raised" ELSE "validated"
    /\ wf' = IF v.raised THEN WorkflowFailed(user_query) ELSE wf

\* WorkflowManager.process_user_query step 2: planner.validate_plan
ValidatePlan ==
    /\ pc = "built"
    /\ \E order \in IterationOrders(TaskIds(plan.tasks)) :
          Validated(validate_plan(plan.tasks, order))
    /\ UNCHANGED <<user_query, raw, executions, gen_title, gen_ids, ready_tasks, extras>>

\* `if not validation["valid"]: return WorkflowResult(...)`
RejectPlan ==
    /\ pc = "validated"
    /\ ~result.valid
    /\ wf' = WorkflowRejected(plan, user_query, result)
    /\ pc' = "rejected"
    /\ UNCHANGED <<user_query, raw, plan, before, result, executions, gen_title, gen_ids, ready_tasks, extras>>

\* the effect of one coordinator.execute_plan call with outcome x: the
\* plan's tasks carry the new statuses, process_user_query returns the
\* coordinator's result, or its own failure result when the call raised
Executed(x) ==
    /\ plan' = [plan EXCEPT !.tasks = x.tasks]
    /\ wf' = IF x.raised THEN WorkflowFailed(user_query) ELSE x.wf
    /\ executions' = executions + 1
    /\ pc' = "executed"

\* ExecutePlan without the check of validation["valid"]
ExecutePlan_Unchecked ==
    /\ pc = "validated"
    /\ \E o \in ExecutionOutcomes : Executed(execute_plan(plan, o))
    /\ UNCHANGED <<user_query, raw, before, result, gen_title, gen_ids, ready_tasks, extras>>

\* WorkflowManager.process_user_query step 3: coordinator.execute_plan
ExecutePlan ==
    /\ pc = "validated"
    /\ result.valid
    /\ \E o \in ExecutionOutcomes : Executed(execute_plan(plan, o))
    /\ UNCHANGED <<user_query, raw, before, result, gen_title, gen_ids, ready_tasks, extras>>

Next == CreatePlan \/ ValidatePlan \/ RejectPlan \/ ExecutePlan

Spec == Init /\ [][Next]_vars

\* validate_plan called once more on the Plan the first call left
Revalidated(v) ==
    /\ again' = [present |-> TRUE, first |-> plan.tasks, valid |-> v.valid,
                 errors |-> v.errors, warnings |-> v.warnings]
    /\ plan' = [plan EXCEPT !.tasks = v.tasks]
    /\ pc' = IF v.raised THEN "validate_raised" ELSE "revalidated"

ValidateAgain ==
    /\ pc = "validated"
    /\ \E order \in IterationOrders(TaskIds(plan.tasks)) :
          Revalidated(validate_plan(plan.tasks, order))
    /\ UNCHANGED <<user_query, raw, before, result, wf, executions,
                   gen_title, gen_ids, ready_tasks, manager, outcome,
                   calendar_events, reply, calls>>

NextRevalidate == CreatePlan \/ ValidatePlan \/ ValidateAgain

SpecRevalidate == Init /\ [][NextRevalidate]_vars

\* the planner on its own: create_plan, then validate_plan on its Plan
NextPlanner == CreatePlan \/ ValidatePlan

SpecPlanner == Init /\ [][NextPlanner]_vars

----------------------------------------------------------------------------
(* The id generator on its own: calls of _generate_task_id with one title  *)

MaxTitleLen == 4

MaxCalls == 2

\* a letter of each case, a digit, an upper-case letter without lower-case
\* form, and three characters that are not alphanumeric, the hyphen among
\* them
TitleAlphabet == {"a", "B", "7", DoubleStruckC, "-", " ", "'"}

\* the titles of up to n characters
Titles(n) == UNION {[1..k -> TitleAlphabet] : k \in 0..n}

NoResponse == [keys |-> {}, tasks |-> <<>>, estimated_total_duration |-> 0]

\* no planning request is running
RequestIdle ==
    /\ user_query = <<>>
    /\ raw = NoResponse
    /\ plan = NoPlan
    /\ before = NoPlan
    /\ result = NoResult
    /\ pc = "idle"
    /\ wf = NoWorkflowResult
    /\ executions = 0

InitId ==
    /\ gen_title \in Titles(MaxTitleLen)
    /\ gen_ids = <<>>
    /\ ready_tasks = NotCalled
    /\ RequestIdle
    /\ ExtrasIdle

\* one call of _generate_task_id(title)
GenerateTaskId ==
    /\ Len(gen_ids) < MaxCalls
    /\ gen_ids' = Append(gen_ids, generate_task_id(gen_title))
    /\ UNCHANGED <<gen_title, request, ready_tasks, extras>>

NextId == GenerateTaskId

SpecId == InitId /\ [][NextId]_vars

----------------------------------------------------------------------------
(* get_ready_tasks on its own: a Plan whose tasks are in any status        *)

MaxReadyTasks == 2

TaskStatuses == {"pending", "in_progress", "completed", "failed"}

\* no dependency, ids of the pool's titles, and a reference to no task
DependencyLists == {<<>>, << <<"a">> >>, << <<"b">> >>, << <<"a">>, <<"b">> >>, <<D_z>>}

\* a Plan of n tasks with the given titles, statuses and dependencies lists
StatusPlan(n, titles, statuses, deps) ==
    [present |-> TRUE, id |-> NewPlanId, user_query |-> Q_followup,
     tasks |-> [k \in 1..n |->
                  [id |-> generate_task_id(titles[k]), title |-> titles[k],
                   status |-> statuses[k], required_tools |-> <<>>,
                   estimated_duration |-> DefaultDuration,
                   dependencies |-> deps[k]]],
     estimated_total_duration |-> n * DefaultDuration]

InitReady ==
    /\ \E n \in 0..MaxReadyTasks :
          \E titles \in TitleChoices(n), statuses \in [1..n -> TaskStatuses],
             deps \in [1..n -> DependencyLists] :
                plan = StatusPlan(n, titles, statuses, deps)
    /\ ready_tasks = NotCalled
    /\ user_query = Q_followup
    /\ raw = NoResponse
    /\ before = NoPlan
    /\ result = NoResult
    /\ pc = "idle"
    /\ wf = NoWorkflowResult
    /\ executions = 0
    /\ gen_title = <<>>
    /\ gen_ids = <<>>
    /\ ExtrasIdle

\* one call of plan.get_ready_tasks()
GetReadyTasks ==
    /\ ready_tasks = NotCalled
    /\ ready_tasks' = get_ready_tasks(plan.tasks)
    /\ UNCHANGED <<request, generator, extras>>

NextReady == GetReadyTasks

SpecReady == InitReady /\ [][NextReady]_vars

----------------------------------------------------------------------------
(* The WorkflowManager over its life: initialize, process_user_query and   *)
(* cleanup in any order, each call one step                                *)

\* what can happen inside MagenticCoordinator.initialize: all goes well,
\* InProcessRuntime() raises, something between the runtime and the
\* orchestration raises (start, the agents, the chat service), or
\* MagenticOrchestration(...) raises
InitializeOutcomes == {"ok", "runtime_raises", "agents_raise", "orchestration_raises"}

\* MagenticCoordinator.initialize: the exception of MagenticOrchestration(...)
\* is caught and printed by the inner handler, every other one is re-raised
coordinator_initialize(m, env) ==
    IF env = "runtime_raises" THEN [raised |-> TRUE, manager |-> m]
    ELSE IF env = "agents_raise"
         THEN [raised |-> TRUE, manager |-> [m EXCEPT !.runtime = "started"]]
    ELSE IF env = "orchestration_raises"
         THEN [raised |-> FALSE, manager |-> [m EXCEPT !.runtime = "started"]]
    ELSE [raised |-> FALSE,
          manager |-> [m EXCEPT !.runtime = "started", !.orchestration = TRUE]]

\* WorkflowManager.initialize
manager_initialize(m, env) ==
    IF coordinator_initialize(m, env).raised
    THEN [raised |-> TRUE, manager |-> coordinator_initialize(m, env).manager]
    ELSE [raised |-> FALSE,
          manager |-> [coordinator_initialize(m, env).manager EXCEPT !.initialized = TRUE]]

\* MagenticCoordinator.cleanup: the runtime is stopped (a failing stop is
\* only printed) and stays in self.runtime; never raises
coordinator_cleanup(m, stop_raises) ==
    IF m.runtime # "none" /\ ~stop_raises THEN [m EXCEPT !.runtime = "stopped"] ELSE m

\* WorkflowManager.cleanup
manager_cleanup(m, stop_raises) ==
    [coordinator_cleanup(m, stop_raises) EXCEPT !.initialized = FALSE]

\* execute_plan's guard: `self.orchestration` and `self.runtime` are set
CoordinatorReady(m) == m.orchestration /\ m.runtime # "none"

\* the `if not self.initialized: await self.initialize()` of the handlers
EnsureInitialized(m, env) ==
    IF m.initialized THEN [raised |-> FALSE, manager |-> m] ELSE manager_initialize(m, env)

\* lines 76-80: the WorkflowResult of execute_plan is returned, its
\* RuntimeError goes to the handler of lines 82-94
AfterExecute(m, q, x) ==
    [raised |-> FALSE, manager |-> m, plan |-> x.plan,
     wf |-> IF x.raised THEN WorkflowFailed(q) ELSE x.wf]

\* lines 55-76: an invalid plan is rejected, a valid one executed
AfterValidate(m, q, p, v, o) ==
    IF v.raised
    THEN [raised |-> FALSE, manager |-> m, plan |-> p, wf |-> WorkflowFailed(q)]
    ELSE IF ~v.valid
    THEN [raised |-> FALSE, manager |-> m, plan |-> [p EXCEPT !.tasks = v.tasks],
          wf |-> WorkflowRejected(p, q, v)]
    ELSE AfterExecute(m, q,
            [plan |-> [p EXCEPT !.tasks =
                          execute_plan([p EXCEPT !.tasks = v.tasks],
                                       [o EXCEPT !.initialized = CoordinatorReady(m)]).tasks],
             raised |-> execute_plan([p EXCEPT !.tasks = v.tasks],
                                     [o EXCEPT !.initialized = CoordinatorReady(m)]).raised,
             wf |-> execute_plan([p EXCEPT !.tasks = v.tasks],
                                 [o EXCEPT !.initialized = CoordinatorReady(m)]).wf])

\* lines 45-53: create_plan, then validate_plan on its Plan
AfterCreate(m, q, c, order, o) ==
    IF c.raised
    THEN [raised |-> FALSE, manager |-> m, plan |-> NoPlan, wf |-> WorkflowFailed(q)]
    ELSE AfterValidate(m, q, c.plan, validate_plan(c.plan.tasks, order), o)

\* lines 35-36 stand before the try: the exception of initialize leaves
\* the method; everything after them ends in a WorkflowResult
AfterInitialize(i, q, resp, order, o) ==
    IF i.raised
    THEN [raised |-> TRUE, manager |-> i.manager, plan |-> NoPlan,
          wf |-> NoWorkflowResult]
    ELSE AfterCreate(i.manager, q, create_plan(q, resp), order, o)

\* process_user_query(user_query) on manager m
process_user_query(m, q, resp, order, env, o) ==
    AfterInitialize(EnsureInitialized(m, env), q, resp, order, o)

InitLifecycle ==
    /\ manager = NewManager
    /\ outcome = NoCall
    /\ again = NotAgain
    /\ calendar_events = <<>>
    /\ reply = NoReply
    /\ calls = <<>>
    /\ RequestIdle
    /\ gen_title = <<>>
    /\ gen_ids = <<>>
    /\ ready_tasks = NotCalled

\* await workflow_manager.initialize()
Initialize ==
    /\ \E env \in InitializeOutcomes :
          /\ manager' = manager_initialize(manager, env).manager
          /\ outcome' = [call |-> "initialize",
                         raised |-> manager_initialize(manager, env).raised]
    /\ UNCHANGED <<request, generator, ready_tasks, again, calendar_events, reply, calls>>

Returned(q, resp, r) ==
    /\ user_query' = q
    /\ raw' = resp
    /\ manager' = r.manager
    /\ plan' = r.plan
    /\ wf' = r.wf
    /\ outcome' = [call |-> "process_user_query", raised |-> r.raised]

\* await workflow_manager.process_user_query(q)
ProcessUserQuery ==
    /\ \E q \in QueryPool, resp \in ShortResponses, env \in InitializeOutcomes,
          o \in ExecutionOutcomes :
          \E order \in IterationOrders(TaskIds(create_plan(q, resp).plan.tasks)) :
             Returned(q, resp, process_user_query(manager, q, resp, order, env, o))
    /\ UNCHANGED <<before, result, pc, executions, generator, ready_tasks, again,
                   calendar_events, reply, calls>>

\* await workflow_manager.cleanup()
Cleanup ==
    /\ \E stop_raises \in BOOLEAN :
          manager' = manager_cleanup(manager, stop_raises)
    /\ outcome' = [call |-> "cleanup", raised |-> FALSE]
    /\ UNCHANGED <<request, generator, ready_tasks, again, calendar_events, reply, calls>>

NextLifecycle == Initialize \/ ProcessUserQuery \/ Cleanup

SpecLifecycle == InitLifecycle /\ [][NextLifecycle]_vars

----------------------------------------------------------------------------
(* EmailCalendarTools: schedule_meeting and manage_meeting on the          *)
(* calendar.  Times are whole hours counted from 2024-12-18T10:00:00, an   *)
(* ISO string that parses is given as its hour, one that does not as       *)
(* InvalidTime, a missing argument as NoTime (numbers that are no hour of  *)
(* the calendar); durations are in hours.                                  *)

MaxTime == 3

MaxDuration == 2

MaxEvents == 3

InvalidTime == -1

NoTime == -2

Times == 0..MaxTime

\* the two events __init__ puts on the calendar: 2024-12-18 10:00-11:00
\* and 2024-12-19 14:00-15:00, kept in their order and apart
InitialEvents ==
    << [id |-> "evt001", start_time |-> 0, end_time |-> 1],
       [id |-> "evt002", start_time |-> 2, end_time |-> 3] >>

\* f"evt_{datetime.now().strftime('%Y%m%d_%H%M%S')}": the id is the second
\* of the call, so two calls within one second get the same id
EventStamps == {"evt_s1", "evt_s2"}

\* `start_dt < event_end and end_dt > event_start`
Conflicts(start_dt, end_dt, event) ==
    start_dt < event.end_time /\ end_dt > event.start_time

\* schedule_meeting(title, start_time, duration_minutes, attendees)
schedule_meeting(events, start_time, duration, stamp) ==
    IF start_time \notin Times
    THEN [events |-> events, status |-> "error"]
    ELSE IF \E i \in DOMAIN events :
               Conflicts(start_time, start_time + duration, events[i])
    THEN [events |-> events, status |-> "conflict"]
    ELSE [events |-> Append(events, [id |-> stamp, start_time |-> start_time,
                                     end_time |-> start_time + duration]),
          status |-> "success"]

\* the event the loop of manage_meeting stops at: the first with the id
FirstWithId(events, event_id) ==
    Least({i \in DOMAIN events : events[i].id = event_id})

\* self.calendar_events.pop(event_index)
RemoveAt(events, k) ==
    [i \in 1..(Len(events) - 1) |-> IF i < k THEN events[i] ELSE events[i + 1]]

\* the reschedule branch: the event keeps its duration at the new start
MoveEvent(event, new_start_dt) ==
    [event EXCEPT !.start_time = new_start_dt,
                  !.end_time = new_start_dt + (event.end_time - event.start_time)]

\* manage_meeting(event_id, action, new_start_time)
manage_meeting(events, event_id, action, new_start_time) ==
    IF ~\E i \in DOMAIN events : events[i].id = event_id
    THEN [events |-> events, status |-> "error"]
    ELSE IF action = "cancel"
    THEN [events |-> RemoveAt(events, FirstWithId(events, event_id)),
          status |-> "success"]
    ELSE IF action = "reschedule" /\ new_start_time # NoTime
    THEN IF new_start_time \notin Times
         THEN [events |-> events, status |-> "error"]
         ELSE [events |-> [events EXCEPT ![FirstWithId(events, event_id)] =
                                MoveEvent(@, new_start_time)],
               status |-> "success"]
    ELSE [events |-> events, status |-> "error"]

\* nothing of the planner, the manager or the executor is in use
CalendarOnly ==
    /\ RequestIdle
    /\ gen_title = <<>>
    /\ gen_ids = <<>>
    /\ ready_tasks = NotCalled
    /\ again = NotAgain
    /\ manager = NewManager
    /\ outcome = NoCall
    /\ calls = <<>>

InitCalendar ==
    /\ calendar_events = InitialEvents
    /\ reply = NoReply
    /\ CalendarOnly

\* two events share some time
Overlap(e1, e2) == e1.start_time < e2.end_time /\ e2.start_time < e1.end_time

\* the interval asked for shares some time with an event of the calendar
OverlapsCalendar(start_time, end_time) ==
    /\ start_time \in Times
    /\ \E i \in DOMAIN calendar_events :
          Overlap([start_time |-> start_time, end_time |-> end_time],
                  calendar_events[i])

Replied(call, overlapped, r) ==
    /\ calendar_events' = r.events
    /\ reply' = [call |-> call, status |-> r.status, overlapped |-> overlapped,
                 unchanged |-> (r.events = calendar_events)]

\* one call of schedule_meeting; the calendar of the model holds at most
\* MaxEvents events
ScheduleMeeting ==
    /\ Len(calendar_events) < MaxEvents
    /\ \E start_time \in Times \cup {InvalidTime}, duration \in 1..MaxDuration,
          stamp \in EventStamps :
          Replied("schedule_meeting",
                  OverlapsCalendar(start_time, start_time + duration),
                  schedule_meeting(calendar_events, start_time, duration, stamp))
    /\ UNCHANGED <<request, generator, ready_tasks, again, manager, outcome, calls>>

\* one call of manage_meeting
ManageMeeting ==
    /\ \E event_id \in {"evt001", "evt002", "evt999"} \cup EventStamps,
          action \in {"cancel", "reschedule", "postpone"},
          new_start_time \in Times \cup {InvalidTime, NoTime} :
          Replied(action, FALSE,
                  manage_meeting(calendar_events, event_id, action, new_start_time))
    /\ UNCHANGED <<request, generator, ready_tasks, again, manager, outcome, calls>>

NextCalendar == ScheduleMeeting \/ ManageMeeting

SpecCalendar == InitCalendar /\ [][NextCalendar]_vars

----------------------------------------------------------------------------
(* Several create_plan / validate_plan invocations on one PlannerAgent,    *)
(* interleaved: every invocation has its own locals (user_query, the       *)
(* parsed response, the Plan, the validation dict); the agent's attributes *)
(* (config, chat_service, agent) are only read                             *)

MaxInvocations == 2

\* the locals of an invocation that has not started
NewInvocation(q, resp) ==
    [pc |-> "start", user_query |-> q, raw |-> resp, plan |-> NoPlan,
     result |-> NoResult]

\* task_ids kept on the agent and never cleared: the ids of every plan the
\* agent holds
task_ids_of_Agent(cs, i) ==
    UNION {TaskIds(cs[j].plan.tasks) : j \in DOMAIN cs}

\* task_ids = {task.id for task in plan.tasks}, a local of invocation i
task_ids_of(cs, i) == TaskIds(cs[i].plan.tasks)

\* validate_plan as invocation i runs it, its set task_ids walked in `order`
validate_call(cs, i, order) ==
    IF has_circular_dependencies(cs[i].plan.tasks).raised
    THEN [raised |-> TRUE, tasks |-> cs[i].plan.tasks, valid |-> FALSE,
          errors |-> <<>>, warnings |-> <<>>]
    ELSE AfterDependencyCheck(
             CheckTasks(1, task_ids_of(cs, i), order,
                        AfterCycleCheck(cs[i].plan.tasks,
                                        has_circular_dependencies(cs[i].plan.tasks))))

InitConcurrent ==
    /\ calls \in [1..MaxInvocations ->
                    {NewInvocation(q, resp) : q \in QueryPool, resp \in ShortResponses}]
    /\ RequestIdle
    /\ gen_title = <<>>
    /\ gen_ids = <<>>
    /\ ready_tasks = NotCalled
    /\ again = NotAgain
    /\ manager = NewManager
    /\ outcome = NoCall
    /\ calendar_events = <<>>
    /\ reply = NoReply

\* invocation i: the response has arrived; parse, convert, return the Plan
BuiltCall(i, r) ==
    calls' = [calls EXCEPT ![i].plan = r.plan,
                           ![i].pc = IF r.raised THEN "create_raised" ELSE "built"]

BuildCall(i) ==
    /\ calls[i].pc = "start"
    /\ BuiltCall(i, create_plan(calls[i].user_query, calls[i].raw))

\* invocation i: validate_plan on its Plan
ValidatedCall(i, v) ==
    calls' = [calls EXCEPT
                ![i].plan.tasks = v.tasks,
                ![i].result = [present |-> TRUE, raised |-> v.raised, valid |-> v.valid,
                               errors |-> v.errors, warnings |-> v.warnings],
                ![i].pc = IF v.raised THEN "validate_raised" ELSE "validated"]

ValidateCall(i) ==
    /\ calls[i].pc = "built"
    /\ \E order \in IterationOrders(task_ids_of(calls, i)) :
          ValidatedCall(i, validate_call(calls, i, order))

NextConcurrent ==
    /\ \E i \in DOMAIN calls : BuildCall(i) \/ ValidateCall(i)
    /\ UNCHANGED <<request, generator, ready_tasks, again, manager, outcome,
                   calendar_events, reply>>

SpecConcurrent == InitConcurrent /\ [][NextConcurrent]_vars

----------------------------------------------------------------------------
(* An executor on top of get_ready_tasks: it calls plan.get_ready_tasks(), *)
(* takes any one of the returned tasks and marks it completed, again and   *)
(* again                                                                   *)

MaxExecTasks == 3

\* a freshly built Plan: every task pending
InitExecutor ==
    /\ \E n \in 0..MaxExecTasks :
          \E titles \in TitleChoices(n), deps \in [1..n -> DependencyLists] :
             plan = StatusPlan(n, titles, [k \in 1..n |-> "pending"], deps)
    /\ ready_tasks = NotCalled
    /\ user_query = Q_followup
    /\ raw = NoResponse
    /\ before = NoPlan
    /\ result = NoResult
    /\ pc = "idle"
    /\ wf = NoWorkflowResult
    /\ executions = 0
    /\ gen_title = <<>>
    /\ gen_ids = <<>>
    /\ ExtrasIdle

\* task.status = TaskStatus.COMPLETED for the task at position k
MarkCompleted(k) ==
    plan' = [plan EXCEPT !.tasks[k].status = "completed"]

\* one round of the executor: the call, and one returned task completed
\* (nothing to do when the call returned no task)
TakeReadyTask ==
    /\ ready_tasks' = get_ready_tasks(plan.tasks)
    /\ IF get_ready_tasks(plan.tasks) = <<>>
       THEN plan' = plan
       ELSE \E k \in Range(get_ready_tasks(plan.tasks)) : MarkCompleted(k)
    /\ UNCHANGED <<user_query, raw, before, result, pc, wf, executions, generator, extras>>

NextExecutor == TakeReadyTask

\* the executor keeps going round: a round that can change something is
\* eventually taken
SpecExecutor == InitExecutor /\ [][NextExecutor]_vars /\ WF_vars(TakeReadyTask)

----------------------------------------------------------------------------
(* Vocabulary of the properties: the dependency relation between task ids  *)

\* x -> y when some task with id x lists y, and y is the id of a task
IdEdges(tasks) ==
    {e \in TaskIds(tasks) \X TaskIds(tasks) :
        \E k \in DOMAIN tasks :
            tasks[k].id = e[1] /\ e[2] \in Range(tasks[k].dependencies)}

RECURSIVE Closure(_, _, _)
Closure(E, S, n) ==
    IF n = 0 THEN S
    ELSE Closure(E, S \cup {e[2] : e \in {f \in E : f[1] \in S}}, n - 1)

\* the ids reached from x by one or more edges
ReachPlus(tasks, x) ==
    Closure(IdEdges(tasks), {e[2] : e \in {f \in IdEdges(tasks) : f[1] = x}},
            Len(tasks))

\* some id depends on itself, directly or transitively
Acyclic(tasks) == \A x \in TaskIds(tasks) : x \notin ReachPlus(tasks, x)

\* a cycle through at least two different ids
HasLongCycle(tasks) ==
    \E x, y \in TaskIds(tasks) :
        x # y /\ y \in ReachPlus(tasks, x) /\ x \in ReachPlus(tasks, y)

AllReferencesAreIds(tasks) ==
    \A k \in DOMAIN tasks : Range(tasks[k].dependencies) \subseteq TaskIds(tasks)

UniqueIds(tasks) ==
    \A j, k \in DOMAIN tasks : tasks[j].id = tasks[k].id => j = k

MissingErrors(errors) == {i \in DOMAIN errors : errors[i].kind = "missing"}

----------------------------------------------------------------------------
(* C1 *)

\* C1: a plan whose stored dependency lists hold a cycle through two or more
\* task ids is returned with valid = false and a circular-dependency error.
C1_LongCycleFlagged ==
    (pc = "validated" /\ HasLongCycle(before.tasks))
        => (~result.valid /\ CircularError \in Range(result.errors))

----------------------------------------------------------------------------
(* C2 *)

\* C2: when validate_plan returns valid = true, the plan it leaves behind
\* (repairs applied) has no task id that depends on itself, directly or
\* transitively.
C2_ValidIsAcyclic ==
    (pc = "validated" /\ result.valid) => Acyclic(plan.tasks)

----------------------------------------------------------------------------
(* C3 *)

\* C3: when validate_plan returns valid = true, every entry of every
\* dependencies list of the plan it leaves behind is the id of a task of
\* the plan.
C3_ValidIsClosed ==
    (pc = "validated" /\ result.valid) => AllReferencesAreIds(plan.tasks)

\* a valid result for a plan one of whose references had to be repaired
C3_Witness ==
    /\ pc = "validated"
    /\ result.valid
    /\ ~AllReferencesAreIds(before.tasks)
    /\ AllReferencesAreIds(plan.tasks)

----------------------------------------------------------------------------
(* C4 *)

NoDependencies(tasks) == \A k \in DOMAIN tasks : tasks[k].dependencies = <<>>

\* C4: a plan all of whose dependencies lists are empty validates with
\* valid = true and no errors, whatever its task count, ids and durations.
C4_NoDependenciesValid ==
    (pc = "validated" /\ NoDependencies(before.tasks))
        => (result.valid /\ result.errors = <<>>)

\* tasks with equal ids, no dependencies, and a total duration over the
\* ceiling, validated as valid
C4_Witness ==
    /\ pc = "validated"
    /\ NoDependencies(before.tasks)
    /\ Len(plan.tasks) >= 2
    /\ ~UniqueIds(plan.tasks)
    /\ result.warnings # <<>>
    /\ result.valid

----------------------------------------------------------------------------
(* C5 *)

\* the plan as create_plan built it
Built == IF pc = "built" THEN plan ELSE before

\* reference d of raw task k is exactly the generated id of another raw task
ExactReference(k, d) ==
    \E j \in DOMAIN raw.tasks :
        j # k /\ raw.tasks[k].dependencies[d] = generate_task_id(raw.tasks[j].title)

\* C5: a declared dependency that equals the generated id of another task of
\* the response is built as exactly that id and is not rewritten by
\* validate_plan; an acyclic plan of such references validates with
\* valid = true and no errors; the two-task example gets the ids
\* retrieve-customer-data and send-follow-up-email.
C5_ExactReferenceKept ==
    pc \in {"built", "validated"} =>
        /\ \A k \in DOMAIN raw.tasks : \A d \in DOMAIN raw.tasks[k].dependencies :
              ExactReference(k, d) =>
                 /\ Built.tasks[k].dependencies[d] = raw.tasks[k].dependencies[d]
                 /\ pc = "validated" =>
                       plan.tasks[k].dependencies[d] = raw.tasks[k].dependencies[d]
        /\ ( /\ pc = "validated"
             /\ \A k \in DOMAIN raw.tasks : \A d \in DOMAIN raw.tasks[k].dependencies :
                   ExactReference(k, d)
             /\ Acyclic(before.tasks) )
           => (result.valid /\ result.errors = <<>>)
        /\ raw = Scenario(T_retrieve, T_send, ID_retrieve) =>
              /\ Built.tasks[1].id = ID_retrieve
              /\ Built.tasks[2].id = ID_send

\* the two-task example, validated
C5_Witness ==
    /\ pc = "validated"
    /\ raw = Scenario(T_retrieve, T_send, ID_retrieve)
    /\ plan.tasks[2].dependencies = <<ID_retrieve>>
    /\ result.valid
    /\ result.errors = <<>>

----------------------------------------------------------------------------
(* C6 *)

\* C6: with task 2 declaring the dependency "Retrieve Customer Data", after
\* create_plan and validate_plan the dependency of task 2 is
\* retrieve-customer-data and no unresolved-dependency error is reported.
C6_TitleReferenceResolved ==
    (pc = "validated" /\ raw = Scenario(T_retrieve, T_send, D_retrieve_title))
        => /\ plan.tasks[2].dependencies = <<ID_retrieve>>
           /\ MissingErrors(result.errors) = {}

----------------------------------------------------------------------------
(* C7 *)

\* C7: the reference "Acme Corporation's onboarding" in a plan whose task id
\* is acme-corporations-onboarding is rewritten to that id and no error is
\* recorded.
C7_PossessiveReferenceResolved ==
    (pc = "validated" /\ raw = Scenario(T_acme, T_welcome, D_acme_spaced))
        => (before.tasks[1].id = ID_acme
               => (plan.tasks[2].dependencies = <<ID_acme>> /\ result.errors = <<>>))

----------------------------------------------------------------------------
(* C8 *)

\* C8: for every dependency entry that is not a task id: if some task id
\* matches it under the fuzzy rules, every occurrence of it in the task's
\* list is rewritten to one such matching id and no error is recorded for
\* it; otherwise the entry stays, an error naming the task and the entry is
\* recorded and valid is false.  Entries that are task ids stay as they are.
C8_RepairOrError ==
    pc = "validated" =>
        \A k \in DOMAIN before.tasks : \A d \in DOMAIN before.tasks[k].dependencies :
            LET ids == TaskIds(before.tasks)
                dep == before.tasks[k].dependencies[d]
                now == plan.tasks[k].dependencies[d]
                err == MissingError(before.tasks[k].title, dep)
            IN IF dep \in ids THEN now = dep
               ELSE IF \E e \in ids : FuzzyMatch(dep, e)
                    THEN /\ now \in ids
                         /\ FuzzyMatch(dep, now)
                         /\ err \notin Range(result.errors)
                         /\ \A d2 \in DOMAIN before.tasks[k].dependencies :
                               before.tasks[k].dependencies[d2] = dep
                                  => plan.tasks[k].dependencies[d2] = now
                    ELSE /\ now = dep
                         /\ err \in Range(result.errors)
                         /\ ~result.valid

\* one task with a reference that was rewritten and one that was reported
C8_Witness ==
    /\ pc = "validated"
    /\ \E k \in DOMAIN before.tasks :
          /\ before.tasks[k].dependencies = <<D_Ab, D_z>>
          /\ plan.tasks[k].dependencies[1] \in TaskIds(plan.tasks)
          /\ plan.tasks[k].dependencies[2] = D_z
          /\ result.errors = <<MissingError(plan.tasks[k].title, D_z)>>

----------------------------------------------------------------------------
(* C9 *)

\* C9: validate_plan returns a result with valid, errors and warnings for
\* every plan (cycles, self-dependencies, dangling dependencies, equal ids
\* and zero tasks included) and never raises.
WellFormedResult(v) ==
    /\ ~v.raised
    /\ v.valid \in BOOLEAN
    /\ \A i \in DOMAIN v.errors : v.errors[i].kind \in {"circular", "missing"}
    /\ \A i \in DOMAIN v.warnings : v.warnings[i] = DurationWarning

----------------------------------------------------------------------------
(* C10 *)

\* a raw task without a required field or with a duration out of range
Malformed(t) ==
    \/ ~({"title", "description", "agent_type"} \subseteq t.keys)
    \/ /\ "estimated_duration" \in t.keys
       /\ (t.estimated_duration < 1 \/ t.estimated_duration > 480)

\* C10: if any raw task lacks title, description or agent_type, or has an
\* estimated_duration below 1 or above 480, create_plan raises and returns
\* no Plan, not even one of the well-formed tasks.
C10_BuildIsAtomic ==
    (pc # "start" /\ \E k \in DOMAIN raw.tasks : Malformed(raw.tasks[k]))
        => (pc = "create_raised" /\ plan = NoPlan)

\* create_plan raised on a response with a malformed and a well-formed task
C10_Witness ==
    /\ pc = "create_raised"
    /\ plan = NoPlan
    /\ ResponseKeys \subseteq raw.keys
    /\ raw.estimated_total_duration >= 1
    /\ \E k \in DOMAIN raw.tasks : Malformed(raw.tasks[k])
    /\ \E k \in DOMAIN raw.tasks : ~Malformed(raw.tasks[k])

----------------------------------------------------------------------------
(* C11 *)

\* C11: in every result of validate_plan valid is false exactly when errors
\* is non-empty, whatever the warnings are; the plan whose only finding is a
\* total duration of 500 minutes is returned with valid = true, no errors
\* and the duration warning.
C11_ValidIffNoErrors ==
    pc = "validated" =>
        /\ result.valid <=> (result.errors = <<>>)
        /\ raw = FiveHundredMinutes =>
              (result.valid /\ result.warnings = <<DurationWarning>>)

\* the 500-minute plan, validated: a warning, no error, valid
C11_Witness ==
    /\ pc = "validated"
    /\ raw = FiveHundredMinutes
    /\ result.warnings # <<>>
    /\ result.errors = <<>>
    /\ result.valid

----------------------------------------------------------------------------
(* C12 *)

\* the sum of the tasks' durations, from the head of the list
RECURSIVE DurationSum(_)
DurationSum(tasks) ==
    IF tasks = <<>> THEN 0
    ELSE Head(tasks).estimated_duration + DurationSum(Tail(tasks))

----------------------------------------------------------------------------
(* C13 *)

\* a task, a plan, with the dependencies lists blanked out
WithoutDependencies(t) == [t EXCEPT !.dependencies = <<>>]

PlanWithoutDependencies(p) ==
    [p EXCEPT !.tasks = [k \in DOMAIN p.tasks |-> WithoutDependencies(p.tasks[k])]]

\* C13: apart from the tasks' dependencies lists the plan after
\* validate_plan is the plan before it: same tasks in the same order with the
\* same id, title, status, required_tools and estimated_duration, same plan
\* id, user_query and estimated_total_duration, repaired or not.
C13_OnlyDependenciesChange ==
    pc = "validated" =>
        /\ Len(plan.tasks) = Len(before.tasks)
        /\ PlanWithoutDependencies(plan) = PlanWithoutDependencies(before)

\* a validation that rewrote a dependency of a task that has required tools
C13_Witness ==
    /\ pc = "validated"
    /\ PlanWithoutDependencies(plan) = PlanWithoutDependencies(before)
    /\ \E k \in DOMAIN plan.tasks :
          /\ plan.tasks[k].dependencies # before.tasks[k].dependencies
          /\ plan.tasks[k].required_tools # <<>>
          /\ plan.tasks[k].id = before.tasks[k].id

----------------------------------------------------------------------------
(* C14 *)

AllPending(tasks) == \A k \in DOMAIN tasks : tasks[k].status = "pending"

\* C14: coordinator.execute_plan is invoked exactly for the plans whose
\* validation returned valid = true, warnings or not; a plan whose validation
\* returned valid = false is never executed, keeps every task pending, and
\* its WorkflowResult has success = false, the validation errors as errors
\* and no agent responses.
C14_ExecuteIffValid ==
    /\ executions = (IF pc = "executed" THEN 1 ELSE 0)
    /\ pc = "executed" => (result.present /\ result.valid)
    /\ pc = "rejected" =>
          /\ result.present
          /\ ~result.valid
          /\ result.errors # <<>>
          /\ AllPending(plan.tasks)
          /\ wf.present
          /\ ~wf.success
          /\ wf.errors = result.errors
          /\ wf.agent_responses = <<>>

\* a plan with a dangling reference, rejected
C14_Witness ==
    /\ pc = "rejected"
    /\ executions = 0
    /\ plan.tasks # <<>>
    /\ AllPending(plan.tasks)
    /\ \E i \in DOMAIN result.errors : result.errors[i].kind = "missing"
    /\ wf.errors = result.errors
    /\ ~wf.success

----------------------------------------------------------------------------
(* C15 *)

\* C15: in every Plan create_plan returns, no two tasks have the same id.
C15_TaskIdsUnique ==
    pc = "built" => UniqueIds(plan.tasks)

----------------------------------------------------------------------------
(* C16 *)

\* C16: the estimated_total_duration of every Plan create_plan returns is
\* the sum of the estimated_duration of its tasks.
C16_TotalIsSum ==
    pc = "built" => plan.estimated_total_duration = DurationSum(plan.tasks)

----------------------------------------------------------------------------
(* C17 *)

\* the reference algorithm, step by step: lower-case and map every
\* character that is not alphanumeric to a hyphen, ...
ReferenceChar(c) ==
    IF \E i \in DOMAIN UpperChars : UpperChars[i] = c
    THEN LowerChars[CHOOSE i \in DOMAIN UpperChars : UpperChars[i] = c]
    ELSE IF c \in Range(LowerChars) \cup Range(DigitChars) \cup {DoubleStruckC}
         THEN c ELSE "-"

\* ... collapse runs of hyphens, ...
RECURSIVE CollapseRuns(_)
CollapseRuns(s) ==
    IF Len(s) < 2 THEN s
    ELSE IF s[1] = "-" /\ s[2] = "-" THEN CollapseRuns(Tail(s))
         ELSE <<s[1]>> \o CollapseRuns(Tail(s))

\* ... strip the leading and trailing hyphens
RECURSIVE StripHyphens(_)
StripHyphens(s) ==
    IF s = <<>> THEN s
    ELSE IF Head(s) = "-" THEN StripHyphens(Tail(s))
         ELSE IF s[Len(s)] = "-" THEN StripHyphens(SubSeq(s, 1, Len(s) - 1))
              ELSE s

ReferenceId(t) == StripHyphens(CollapseRuns([i \in DOMAIN t |-> ReferenceChar(t[i])]))

\* id is what the reference algorithm gives for the title t, its hyphens
\* are single and inside, and its other characters are all in allowed
SlugOf(id, t, allowed) ==
    /\ id = ReferenceId(t)
    /\ Range(id) \subseteq allowed \cup {"-"}
    /\ \A i \in DOMAIN id :
          id[i] = "-" => (i > 1 /\ i < Len(id) /\ id[i + 1] # "-")

----------------------------------------------------------------------------
(* C18 *)

\* the characters of the alphabet that are not alphanumeric
OtherChars == {"-", " ", "'"}

\* C18: for a title without any alphanumeric character, the empty title
\* included, every call of _generate_task_id returns the empty string.
C18_NoAlnumGivesEmpty ==
    Range(gen_title) \subseteq OtherChars =>
        \A k \in DOMAIN gen_ids : gen_ids[k] = <<>>

\* a call with a title of hyphens, blanks and apostrophes only
C18_Witness ==
    /\ gen_title = <<"-", " ", "'", "-">>
    /\ gen_ids # <<>>
    /\ gen_ids[1] = <<>>

----------------------------------------------------------------------------
(* C19 *)

\* C19: a Plan create_plan returns has one task per raw task, in the
\* response's order, each with the raw task's title, the id generated from
\* that title and status pending, and carries the caller's user_query.
C19_OneTaskPerRawTask ==
    pc = "built" =>
        /\ Len(plan.tasks) = Len(raw.tasks)
        /\ \A k \in DOMAIN raw.tasks :
              /\ plan.tasks[k].title = raw.tasks[k].title
              /\ plan.tasks[k].id = generate_task_id(raw.tasks[k].title)
              /\ plan.tasks[k].status = "pending"
        /\ plan.user_query = user_query

\* a plan built from three raw tasks, two of them with the same title
C19_Witness ==
    /\ pc = "built"
    /\ Len(raw.tasks) = 3
    /\ Len(plan.tasks) = 3
    /\ raw.tasks[1].title = raw.tasks[2].title
    /\ raw.tasks[3].title # raw.tasks[1].title
    /\ plan.tasks[3].id = <<"b">>
    /\ plan.user_query = Q_followup

----------------------------------------------------------------------------
(* C20 *)

\* task k is pending and each of its dependencies is the id of some task
\* that is completed
ReadyAt(tasks, k) ==
    /\ tasks[k].status = "pending"
    /\ \A d \in Range(tasks[k].dependencies) :
          \E j \in DOMAIN tasks : tasks[j].id = d /\ tasks[j].status = "completed"

\* C20: get_ready_tasks returns, in plan order and each once, exactly the
\* pending tasks whose every dependency is the id of a completed task; a task
\* that is not pending, or has a dependency that is the id of no completed
\* task (of no task at all, in particular), is not returned.
C20_ReadyTasksExact ==
    ready_tasks # NotCalled =>
        /\ \A i, j \in DOMAIN ready_tasks : i < j => ready_tasks[i] < ready_tasks[j]
        /\ Range(ready_tasks) = {k \in DOMAIN plan.tasks : ReadyAt(plan.tasks, k)}

\* the second of two tasks returned: it is pending and depends on the
\* first, which is completed
C20_Witness ==
    /\ ready_tasks = <<2>>
    /\ plan.tasks[1].status = "completed"
    /\ plan.tasks[2].status = "pending"
    /\ plan.tasks[2].dependencies = <<plan.tasks[1].id>>

----------------------------------------------------------------------------
(* C23 *)

\* reference d of raw task k is the generated id of some raw task
NamesGeneratedId(k, d) ==
    \E j \in DOMAIN raw.tasks :
        raw.tasks[k].dependencies[d] = generate_task_id(raw.tasks[j].title)

\* C23: the built plan keeps every task's dependency list in length and
\* order; each built entry is the id of a task of the plan or the raw
\* reference unchanged, and a reference that is no task's generated id is
\* carried into the built task verbatim.
C23_ResolutionPreservesList ==
    pc = "built" =>
        /\ Len(plan.tasks) = Len(raw.tasks)
        /\ \A k \in DOMAIN raw.tasks :
              /\ Len(plan.tasks[k].dependencies) = Len(raw.tasks[k].dependencies)
              /\ \A d \in DOMAIN raw.tasks[k].dependencies :
                    /\ \/ plan.tasks[k].dependencies[d] \in TaskIds(plan.tasks)
                       \/ plan.tasks[k].dependencies[d] = raw.tasks[k].dependencies[d]
                    /\ ~NamesGeneratedId(k, d) =>
                          plan.tasks[k].dependencies[d] = raw.tasks[k].dependencies[d]

\* a built task with two references: the id of another task, then one that
\* is no task's id
C23_Witness ==
    /\ pc = "built"
    /\ Len(plan.tasks) = 2
    /\ raw.tasks[2].dependencies = << <<"a">>, D_Ab >>
    /\ plan.tasks[1].id = <<"a">>
    /\ plan.tasks[2].dependencies = << <<"a">>, D_Ab >>

----------------------------------------------------------------------------
(* C22 *)

\* what _has_circular_dependencies returns when the roots are taken in the
\* given order
CycleFoundFrom(tasks, roots) ==
    VisitRoots(tasks, roots, 1,
               [visited |-> {}, rec_stack |-> {}, ret |-> FALSE, raised |-> FALSE]).ret

\* C22: for a plan whose dependency graph over task ids is acyclic,
\* _has_circular_dependencies returns false whatever the order the roots
\* are visited in, and validate_plan records no circular-dependency error.
C22_NoFalseCycle ==
    (pc = "validated" /\ Acyclic(before.tasks)) =>
        /\ CircularError \notin Range(result.errors)
        /\ ~has_circular_dependencies(before.tasks).ret
        /\ \A roots \in IterationOrders(TaskIds(before.tasks)) :
              ~CycleFoundFrom(before.tasks, roots)

\* tasks b and c both depend on a: a is reached again from c after it left
\* the recursion stack
C22_Witness ==
    /\ pc = "validated"
    /\ Len(before.tasks) = 3
    /\ before.tasks[1].dependencies = <<>>
    /\ before.tasks[2].dependencies = << <<"a">> >>
    /\ before.tasks[3].dependencies = << <<"a">> >>
    /\ before.tasks[1].id = <<"a">>
    /\ UniqueIds(before.tasks)
    /\ result.valid
    /\ result.errors = <<>>

----------------------------------------------------------------------------
(* C25 *)

\* position d of task k held a reference that is no task id
Dangling(tasks, k, d) == tasks[k].dependencies[d] \notin TaskIds(tasks)

\* C25: whatever order the set task_ids is walked in during the repair,
\* validate_plan returns the same valid flag, the same errors in the same
\* order and the same warnings; the plans left behind differ at most in the
\* id a dangling reference was rewritten to.  Every walk is compared with
\* the walk in the order the ids first occur in the plan, so any two walks
\* agree with each other.
C25_OrderOnlyPicksRewrite ==
    pc = "validated" =>
        LET other == validate_plan(before.tasks, GraphKeys(before.tasks))
        IN     /\ other.valid = result.valid
               /\ other.errors = result.errors
               /\ other.warnings = result.warnings
               /\ PlanWithoutDependencies([plan EXCEPT !.tasks = other.tasks])
                     = PlanWithoutDependencies(plan)
               /\ \A k \in DOMAIN before.tasks :
                     /\ Len(other.tasks[k].dependencies) = Len(plan.tasks[k].dependencies)
                     /\ \A d \in DOMAIN before.tasks[k].dependencies :
                           ~Dangling(before.tasks, k, d) =>
                               other.tasks[k].dependencies[d] = plan.tasks[k].dependencies[d]

\* the reference Ab matches both a and b; this walk rewrote it to b, a walk
\* that meets a first rewrites it to a, and the reference z is reported
C25_Witness ==
    /\ pc = "validated"
    /\ Len(before.tasks) = 3
    /\ before.tasks[1].id = <<"a">>
    /\ before.tasks[2].id = <<"b">>
    /\ before.tasks[3].dependencies = <<D_Ab, D_z>>
    /\ plan.tasks[3].dependencies = << <<"b">>, D_z >>
    /\ ~result.valid
    /\ Len(result.errors) = 1
    /\ \E order \in IterationOrders(TaskIds(before.tasks)) :
          validate_plan(before.tasks, order).tasks[3].dependencies = << <<"a">>, D_z >>

----------------------------------------------------------------------------
(* C27 *)

AllInStatus(tasks, st) == \A k \in DOMAIN tasks : tasks[k].status = st

\* execute_plan returned: the WorkflowResult carries the plan's id (the
\* RuntimeError of a coordinator without orchestration ends in the result of
\* process_user_query's handler, whose plan_id is "unknown")
ExecuteReturned == pc = "executed" /\ wf.present /\ wf.plan_id = plan.id

\* C27: every plan handed to execute_plan has all its tasks pending; when
\* execute_plan returns, either success = true, errors is empty and every
\* task is completed, or success = false, errors holds exactly one entry,
\* every task (all were pending) is failed and none is completed; no task
\* is in_progress in either case.
C27_ExecuteLeavesCompletedOrFailed ==
    /\ pc = "validated" => AllPending(plan.tasks)
    /\ ExecuteReturned =>
          /\ \/ /\ wf.success
                /\ wf.errors = <<>>
                /\ AllInStatus(plan.tasks, "completed")
             \/ /\ ~wf.success
                /\ Len(wf.errors) = 1
                /\ AllInStatus(plan.tasks, "failed")
          /\ \A k \in DOMAIN plan.tasks : plan.tasks[k].status # "in_progress"

\* an orchestration that raised after one agent response, on three tasks
C27_Witness ==
    /\ pc = "executed"
    /\ wf.plan_id = plan.id
    /\ ~wf.success
    /\ wf.errors = <<ExecutionError>>
    /\ Len(wf.agent_responses) = 1
    /\ Len(plan.tasks) = 3
    /\ AllInStatus(plan.tasks, "failed")

----------------------------------------------------------------------------
(* C24 *)

\* C24: a second validate_plan on the same Plan, after the repairs of the
\* first, returns the same valid flag and the same errors as the first and
\* changes no dependencies list.
C24_ValidateIdempotent ==
    pc = "revalidated" =>
        /\ again.valid = result.valid
        /\ again.errors = result.errors
        /\ \A k \in DOMAIN plan.tasks :
              plan.tasks[k].dependencies = again.first[k].dependencies

----------------------------------------------------------------------------
(* C26 *)

SomePending(tasks) == \E k \in DOMAIN tasks : tasks[k].status = "pending"

\* unique ids, every dependency the id of a task, no cycle
Schedulable(tasks) ==
    UniqueIds(tasks) /\ AllReferencesAreIds(tasks) /\ Acyclic(tasks)

\* the id of task k depends on itself, directly or transitively
OnCycle(tasks, k) == tasks[k].id \in ReachPlus(tasks, tasks[k].id)

NamesNoTask(tasks, k) == ~(Range(tasks[k].dependencies) \subseteq TaskIds(tasks))

\* what the claim says of one state of the executor
ExecutorNeverStuck ==
    /\ (Schedulable(plan.tasks) /\ SomePending(plan.tasks))
          => get_ready_tasks(plan.tasks) # <<>>
    /\ (UniqueIds(plan.tasks) /\ ready_tasks # NotCalled) =>
          \A i \in DOMAIN ready_tasks :
              /\ ~OnCycle(plan.tasks, ready_tasks[i])
              /\ ~NamesNoTask(plan.tasks, ready_tasks[i])
    /\ \A k \in DOMAIN plan.tasks :
          (UniqueIds(plan.tasks)
              /\ (OnCycle(plan.tasks, k) \/ NamesNoTask(plan.tasks, k)))
            => plan.tasks[k].status = "pending"

----------------------------------------------------------------------------
(* C28 *)

\* C28: process_user_query never lets an exception out: whatever fails, it
\* returns a WorkflowResult, and a failed one has success = false, no agent
\* responses and a message in errors.
C28_QueryNeverRaises ==
    outcome.call = "process_user_query" =>
        /\ ~outcome.raised
        /\ wf.present
        /\ ~wf.success => (wf.agent_responses = <<>> /\ wf.errors # <<>>)

----------------------------------------------------------------------------
(* C29 *)

\* C29: whenever WorkflowManager.initialized is true the coordinator's
\* runtime and orchestration are both set, after any sequence of initialize,
\* process_user_query and cleanup calls.
C29_InitializedIsReady ==
    manager.initialized => CoordinatorReady(manager)

----------------------------------------------------------------------------
(* C30 *)

NoOverlap(events) ==
    \A i, j \in DOMAIN events : i < j => ~Overlap(events[i], events[j])

\* C30: after any sequence of schedule_meeting and manage_meeting calls no
\* two events of calendar_events overlap in time; a schedule_meeting whose
\* interval overlaps an existing event returns status "conflict" and leaves
\* the calendar as it was.
C30_CalendarNeverOverlaps ==
    /\ NoOverlap(calendar_events)
    /\ (reply.call = "schedule_meeting" /\ reply.overlapped)
         => (reply.status = "conflict" /\ reply.unchanged)

----------------------------------------------------------------------------
(* C21 *)

\* create_plan of invocation i run on its own
AloneBuilt(i) == create_plan(calls[i].user_query, calls[i].raw)

\* the results validate_plan can return for that plan run on its own
AloneValidated(i) ==
    {validate_plan(AloneBuilt(i).plan.tasks, order) :
        order \in IterationOrders(TaskIds(AloneBuilt(i).plan.tasks))}

============================================================================
